---- MODULE Spec2Model ----
(***************************************************************************)
(* Model of samples/scrape_person_contacts.py: main() reads a sheet,       *)
(* filters the rows whose Conclusion is "yes", opens one browser context   *)
(* and scrapes the filtered rows one after the other.                      *)
(*                                                                         *)
(* Cell texts are sequences of characters so that lower(), strip() and the *)
(* comparison with "yes" are computed, not assumed.  Every collaborator    *)
(* call (BrowserManager, load_session, scrape, page.url, screenshot) may   *)
(* return or raise.  `log` is the history of console lines and             *)
(* collaborator calls, in program order.                                   *)
(***************************************************************************)
EXTENDS Integers, Sequences, FiniteSets, TLC

VARIABLES sheet, pc, candidates, pos, ctx, acquired, released, session, exc, log

vars == <<sheet, pc, candidates, pos, ctx, acquired, released, session, exc, log>>

\* ---------------------------------------------------------------- bounds
MaxRows == 3

\* ------------------------------------------------------------ cell values
NaN == [missing |-> TRUE, text |-> <<>>]

Txt(s) == [missing |-> FALSE, text |-> s]

ConclusionValues ==
    { NaN, Txt(<<"Y", "e", "s">>), Txt(<<" ", "Y", "e", "s">>), Txt(<<"N", "o">>) }

UrlValues == { NaN, Txt(<<>>), Txt(<<" ", "u">>) }

Rows == [Conclusion : ConclusionValues, LinkedIn : UrlValues]

Sheets == UNION { [1..n -> Rows] : n \in 0..MaxRows }

\* ------------------------------------------------------- pure operations
\* Series.fillna(""): a missing cell becomes the empty string
Fillna(c) == IF c.missing THEN <<>> ELSE c.text

LowerChar(ch) ==
    CASE ch = "Y" -> "y"
      [] ch = "E" -> "e"
      [] ch = "S" -> "s"
      [] ch = "N" -> "n"
      [] ch = "O" -> "o"
      [] OTHER -> ch

\* Series.str.lower()
Lower(s) == [k \in 1..Len(s) |-> LowerChar(s[k])]

RECURSIVE LStrip(_)
LStrip(s) == IF s # <<>> /\ Head(s) = " " THEN LStrip(Tail(s)) ELSE s

RECURSIVE RStrip(_)
RStrip(s) ==
    IF s # <<>> /\ s[Len(s)] = " " THEN RStrip(SubSeq(s, 1, Len(s) - 1)) ELSE s

\* str.strip()
Strip(s) == RStrip(LStrip(s))

\* df["Conclusion"].fillna("").astype(str).str.lower() == "yes"
ConclusionIsYes(row) == Lower(Fillna(row.Conclusion)) = <<"y", "e", "s">>

\* the index label read_excel gives the row at position r: 0, 1, 2, ...
IndexOf(r) == r - 1

RowAt(sh, index) == sh[index + 1]

RECURSIVE FilterFrom(_, _)
FilterFrom(sh, r) ==
    IF r > Len(sh) THEN <<>>
    ELSE (IF ConclusionIsYes(sh[r]) THEN <<IndexOf(r)>> ELSE <<>>)
         \o FilterFrom(sh, r + 1)

\* candidates = df[mask].copy(): the retained index labels, in sheet order
Filter(sh) == FilterFrom(sh, 1)

\* not linkedin_url or pd.isna(linkedin_url)
NoUrl(cell) == cell.missing \/ cell.text = <<>>

\* str(linkedin_url).strip()
CleanUrl(cell) == Strip(cell.text)

\* f"error_{index}.png"
ScreenshotPath(index) == <<"error_", index, ".png">>

NoPath == <<>>

Event(e, index) == [ev |-> e, row |-> index, path |-> NoPath]

ShotEvent(index, p) == [ev |-> "screenshot", row |-> index, path |-> p]

NoRow == -1

\* ------------------------------------------------------------------ Init
Init ==
    /\ sheet \in Sheets
    /\ pc = "start"
    /\ candidates = <<>>
    /\ pos = 1
    /\ ctx = "none"
    /\ acquired = 0
    /\ released = 0
    /\ session = "unloaded"
    /\ exc = "none"
    /\ log = <<>>

Current == candidates[pos]

\* --------------------------------------------------------------- actions
\* lines 23-25: the input file does not exist
FileMissing ==
    /\ pc = "start"
    /\ pc' = "done"
    /\ log' = Append(log, Event("error_not_found", NoRow))
    /\ UNCHANGED <<sheet, candidates, pos, ctx, acquired, released, session, exc>>

\* lines 23-27: the input file exists
FileFound ==
    /\ pc = "start"
    /\ pc' = "read"
    /\ log' = Append(log, Event("reading", NoRow))
    /\ UNCHANGED <<sheet, candidates, pos, ctx, acquired, released, session, exc>>

\* ReadFail as it would be if the except clause of line 39 did not return
ReadFailFallsThrough ==
    /\ pc = "read"
    /\ pc' = "acquire"
    /\ candidates' = Filter(sheet)
    /\ log' = Append(log, Event("error_reading", NoRow))
    /\ UNCHANGED <<sheet, pos, ctx, acquired, released, session, exc>>

\* lines 29-41: read_excel or the filter raises
ReadFail ==
    /\ pc = "read"
    /\ pc' = "done"
    /\ log' = Append(log, Event("error_reading", NoRow))
    /\ UNCHANGED <<sheet, candidates, pos, ctx, acquired, released, session, exc>>

\* ReadOk as it would be without the empty check of lines 43-45
ReadOkNoEmptyCheck ==
    /\ pc = "read"
    /\ candidates' = Filter(sheet)
    /\ pc' = "acquire"
    /\ log' = Append(log, Event("found", NoRow))
    /\ UNCHANGED <<sheet, pos, ctx, acquired, released, session, exc>>

\* lines 29-45: the sheet is read and filtered; an empty worklist returns
ReadOk ==
    /\ pc = "read"
    /\ candidates' = Filter(sheet)
    /\ IF Filter(sheet) = <<>>
       THEN /\ pc' = "done"
            /\ log' = log \o <<Event("found", NoRow), Event("no_candidates", NoRow)>>
       ELSE /\ pc' = "acquire"
            /\ log' = Append(log, Event("found", NoRow))
    /\ UNCHANGED <<sheet, pos, ctx, acquired, released, session, exc>>

\* line 48: BrowserManager.__aenter__ returns
AcquireOk ==
    /\ pc = "acquire"
    /\ ctx' = "open"
    /\ acquired' = acquired + 1
    /\ pc' = "load_session"
    /\ log' = Append(log, Event("acquire", NoRow))
    /\ UNCHANGED <<sheet, candidates, pos, released, session, exc>>

\* line 48: BrowserManager.__aenter__ raises, nothing was entered
AcquireFail ==
    /\ pc = "acquire"
    /\ exc' = "acquire"
    /\ pc' = "done"
    /\ UNCHANGED <<sheet, candidates, pos, ctx, acquired, released, session, log>>

\* LoadSessionOk as it would be if the loop of line 66 were written after
\* the async with block instead of inside it
LoadSessionOkClosesContext ==
    /\ pc = "load_session"
    /\ session' = "loaded"
    /\ ctx' = "released"
    /\ released' = released + 1
    /\ log' = log \o <<Event("load_session", NoRow), Event("session_loaded", NoRow),
                       Event("release", NoRow)>>
    /\ pc' = "loop"
    /\ UNCHANGED <<sheet, candidates, pos, acquired, exc>>

\* lines 57-59, 64
LoadSessionOk ==
    /\ pc = "load_session"
    /\ session' = "loaded"
    /\ log' = log \o <<Event("load_session", NoRow), Event("session_loaded", NoRow)>>
    /\ pc' = "loop"
    /\ UNCHANGED <<sheet, candidates, pos, ctx, acquired, released, exc>>

\* LoadSessionFail as it would be without the try/except of lines 57-61
LoadSessionFailPropagates ==
    /\ pc = "load_session"
    /\ session' = "failed"
    /\ log' = Append(log, Event("load_session", NoRow))
    /\ exc' = "load_session"
    /\ pc' = "exit"
    /\ UNCHANGED <<sheet, candidates, pos, ctx, acquired, released>>

\* lines 57-61, 64: load_session raises, a warning is printed
LoadSessionFail ==
    /\ pc = "load_session"
    /\ session' = "failed"
    /\ log' = log \o <<Event("load_session", NoRow), Event("session_warning", NoRow)>>
    /\ pc' = "loop"
    /\ UNCHANGED <<sheet, candidates, pos, ctx, acquired, released, exc>>

\* lines 66-72: a filtered row without a usable URL
Skip ==
    /\ pc = "loop"
    /\ pos <= Len(candidates)
    /\ NoUrl(RowAt(sheet, Current).LinkedIn)
    /\ log' = Append(log, Event("skipped", Current))
    /\ pos' = pos + 1
    /\ UNCHANGED <<sheet, pc, candidates, ctx, acquired, released, session, exc>>

\* lines 66-78: a filtered row with a URL
Begin ==
    /\ pc = "loop"
    /\ pos <= Len(candidates)
    /\ ~NoUrl(RowAt(sheet, Current).LinkedIn)
    /\ log' = Append(log, Event("processing", Current))
    /\ pc' = "scrape"
    /\ UNCHANGED <<sheet, candidates, pos, ctx, acquired, released, session, exc>>

\* ScrapeOk as it would be without the sleep of line 84
ScrapeOkNoSettle ==
    /\ pc = "scrape"
    /\ log' = Append(log, [ev |-> "scrape", row |-> Current,
                           path |-> CleanUrl(RowAt(sheet, Current).LinkedIn)])
    /\ pc' = "report"
    /\ UNCHANGED <<sheet, candidates, pos, ctx, acquired, released, session, exc>>

\* line 83: scraper.scrape returns
ScrapeOk ==
    /\ pc = "scrape"
    /\ log' = Append(log, [ev |-> "scrape", row |-> Current,
                           path |-> CleanUrl(RowAt(sheet, Current).LinkedIn)])
    /\ pc' = "settle"
    /\ UNCHANGED <<sheet, candidates, pos, ctx, acquired, released, session, exc>>

\* lines 83, 108: scraper.scrape raises, control goes to the except clause
ScrapeRaise ==
    /\ pc = "scrape"
    /\ log' = log \o <<[ev |-> "scrape", row |-> Current,
                         path |-> CleanUrl(RowAt(sheet, Current).LinkedIn)],
                       Event("scrape_error", Current)>>
    /\ pc' = "handler"
    /\ UNCHANGED <<sheet, candidates, pos, ctx, acquired, released, session, exc>>

\* line 84: asyncio.sleep(15)
Settle ==
    /\ pc = "settle"
    /\ log' = Append(log, Event("settle", Current))
    /\ pc' = "report"
    /\ UNCHANGED <<sheet, candidates, pos, ctx, acquired, released, session, exc>>

\* lines 86-103: the success line and the profile summary are printed
ReportOk ==
    /\ pc = "report"
    /\ log' = log \o <<Event("page_url", Current), Event("success", Current)>>
    /\ pc' = "pace"
    /\ UNCHANGED <<sheet, candidates, pos, ctx, acquired, released, session, exc>>

\* line 86: browser.page.url raises before the success line is printed
ReportUrlRaise ==
    /\ pc = "report"
    /\ log' = Append(log, Event("page_url", Current))
    /\ pc' = "handler"
    /\ UNCHANGED <<sheet, candidates, pos, ctx, acquired, released, session, exc>>

\* lines 86-103: the success line is printed, then reading the profile raises
SummaryRaise ==
    /\ pc = "report"
    /\ log' = log \o <<Event("page_url", Current), Event("success", Current)>>
    /\ pc' = "handler"
    /\ UNCHANGED <<sheet, candidates, pos, ctx, acquired, released, session, exc>>

\* line 106: asyncio.sleep(random.uniform(2.2, 4.313)), then the next row
Pace ==
    /\ pc = "pace"
    /\ log' = Append(log, Event("pace", Current))
    /\ pos' = pos + 1
    /\ pc' = "loop"
    /\ UNCHANGED <<sheet, candidates, ctx, acquired, released, session, exc>>

\* HandlerOk as it would be if the session were restored again after a failure
HandlerOkReloadsSession ==
    /\ pc = "handler"
    /\ log' = log \o <<Event("failed", Current), Event("page_url", Current),
                       Event("load_session", NoRow)>>
    /\ pc' = "screenshot"
    /\ UNCHANGED <<sheet, candidates, pos, ctx, acquired, released, session, exc>>

\* lines 108-112: the failure lines are printed, browser.page.url returns
HandlerOk ==
    /\ pc = "handler"
    /\ log' = log \o <<Event("failed", Current), Event("page_url", Current)>>
    /\ pc' = "screenshot"
    /\ UNCHANGED <<sheet, candidates, pos, ctx, acquired, released, session, exc>>

\* lines 108-112: browser.page.url raises inside the except clause
HandlerUrlRaise ==
    /\ pc = "handler"
    /\ log' = log \o <<Event("failed", Current), Event("page_url", Current)>>
    /\ exc' = "page_url"
    /\ pc' = "exit"
    /\ UNCHANGED <<sheet, candidates, pos, ctx, acquired, released, session>>

\* ScreenshotOk as it would be if the except clause retried the candidate
\* instead of continuing with the next one
ScreenshotOkRetries ==
    /\ pc = "screenshot"
    /\ log' = log \o <<ShotEvent(Current, ScreenshotPath(Current)),
                       Event("screenshot_saved", Current)>>
    /\ pc' = "loop"
    /\ UNCHANGED <<sheet, candidates, pos, ctx, acquired, released, session, exc>>

\* ScreenshotOk as it would be if the except clause advanced the iteration
\* once more after a failure: the row after a failed one is passed over
ScreenshotOkSkipsAhead ==
    /\ pc = "screenshot"
    /\ log' = log \o <<ShotEvent(Current, ScreenshotPath(Current)),
                       Event("screenshot_saved", Current)>>
    /\ pos' = IF pos < Len(candidates) THEN pos + 2 ELSE pos + 1
    /\ pc' = "loop"
    /\ UNCHANGED <<sheet, candidates, ctx, acquired, released, session, exc>>

\* lines 115-118: the screenshot is written, then the next row
ScreenshotOk ==
    /\ pc = "screenshot"
    /\ log' = log \o <<ShotEvent(Current, ScreenshotPath(Current)),
                       Event("screenshot_saved", Current)>>
    /\ pos' = pos + 1
    /\ pc' = "loop"
    /\ UNCHANGED <<sheet, candidates, ctx, acquired, released, session, exc>>

\* ScreenshotRaise as it would be if the browser were opened without the
\* async with of line 48: the error leaves main with the context still open
ScreenshotRaiseLeaksContext ==
    /\ pc = "screenshot"
    /\ exc' = "screenshot"
    /\ pc' = "done"
    /\ UNCHANGED <<sheet, candidates, pos, ctx, acquired, released, session, log>>

\* line 115: page.screenshot raises inside the except clause
ScreenshotRaise ==
    /\ pc = "screenshot"
    /\ exc' = "screenshot"
    /\ pc' = "exit"
    /\ UNCHANGED <<sheet, candidates, pos, ctx, acquired, released, session, log>>

\* line 66: the iteration is exhausted
LoopEnd ==
    /\ pc = "loop"
    /\ pos > Len(candidates)
    /\ pc' = "exit"
    /\ UNCHANGED <<sheet, candidates, pos, ctx, acquired, released, session, exc, log>>

\* Release as it would be if line 120 were in a finally clause
ReleaseAlwaysPrints ==
    /\ pc = "exit"
    /\ ctx' = "released"
    /\ released' = released + 1
    /\ log' = log \o <<Event("release", NoRow), Event("batch_done", NoRow)>>
    /\ pc' = "done"
    /\ UNCHANGED <<sheet, candidates, pos, acquired, session, exc>>

\* lines 48, 120: BrowserManager.__aexit__, then the final line unless an
\* exception is propagating out of main
Release ==
    /\ pc = "exit"
    /\ ctx' = "released"
    /\ released' = released + 1
    /\ log' = IF exc = "none"
              THEN log \o <<Event("release", NoRow), Event("batch_done", NoRow)>>
              ELSE Append(log, Event("release", NoRow))
    /\ pc' = "done"
    /\ UNCHANGED <<sheet, candidates, pos, acquired, session, exc>>

Next ==
    \/ FileMissing
    \/ FileFound
    \/ ReadFail
    \/ ReadOk
    \/ AcquireOk
    \/ AcquireFail
    \/ LoadSessionOk
    \/ LoadSessionFail
    \/ Skip
    \/ Begin
    \/ ScrapeOk
    \/ ScrapeRaise
    \/ Settle
    \/ ReportOk
    \/ ReportUrlRaise
    \/ SummaryRaise
    \/ Pace
    \/ HandlerOk
    \/ HandlerUrlRaise
    \/ ScreenshotOk
    \/ ScreenshotRaise
    \/ LoopEnd
    \/ Release

Spec == Init /\ [][Next]_vars

\* one coroutine: every awaited call returns or raises, so main keeps running
FairSpec == Spec /\ WF_vars(Next)

\* ------------------------------------------------- reading the history
Count(e, index) ==
    Cardinality({k \in DOMAIN log : log[k].ev = e /\ log[k].row = index})

Logged(e) == \E k \in DOMAIN log : log[k].ev = e

Outcomes(index) ==
    Count("success", index) + Count("skipped", index) + Count("failed", index)

\* the row was scraped or skipped
Processed(index) == Count("scrape", index) + Count("skipped", index) > 0

\* the for loop of line 66 was entered
LoopStarted == session # "unloaded"

Indices == {IndexOf(r) : r \in 1..Len(sheet)}

\* ------------------------------------------------------------- claims
\* C1: an error raised by scrape for one candidate never aborts the batch:
\* at the end of the run every later filtered row has been scraped or
\* skipped and the loop has run to its end.
C1_ScrapeErrorNeverAborts ==
    pc = "done" =>
        \A p \in 1..Len(candidates) :
            Count("scrape_error", candidates[p]) > 0 =>
                /\ \A q \in (p + 1)..Len(candidates) : Processed(candidates[q])
                /\ pos > Len(candidates)

\* C2: once the loop has started no error terminates the batch: every run
\* that entered the loop ends without a propagating error and with every
\* filtered row processed.
C2_OnlyFatalErrorsTerminate ==
    (pc = "done" /\ LoopStarted) =>
        /\ exc = "none"
        /\ \A p \in 1..Len(candidates) : Processed(candidates[p])

\* C3: between the scrapes of two attempted candidates there is always a
\* pacing delay, on the failure path as on the success path.
C3_PacingAfterEveryAttempt ==
    \A j \in DOMAIN log : \A k \in DOMAIN log :
        (j < k /\ log[j].ev = "scrape" /\ log[k].ev = "scrape") =>
            \E m \in (j + 1)..(k - 1) : log[m].ev = "pace"

\* C4: no filtered row ever has more than one reported outcome, and at the
\* end of a run that entered the loop every filtered row has exactly one.
C4_ExactlyOneOutcome ==
    \A p \in 1..Len(candidates) :
        /\ Outcomes(candidates[p]) <= 1
        /\ (pc = "done" /\ LoopStarted) => Outcomes(candidates[p]) = 1

\* the inclusion predicate as the claim words it: missing as empty, trimmed,
\* case-folded, equal to "yes"
TrimmedConclusionIsYes(row) == Lower(Strip(Fillna(row.Conclusion))) = <<"y", "e", "s">>

\* C5: in a run that completed the batch, a row was scraped if and only if
\* its trimmed, case-folded conclusion is "yes" and it has a URL, and a row
\* whose conclusion does not match has no outcome at all.
C5_ScrapedIffTrimmedYesAndUrl ==
    (pc = "done" /\ Logged("batch_done")) =>
        \A i \in Indices :
            /\ Count("scrape", i) > 0 <=>
                   (TrimmedConclusionIsYes(RowAt(sheet, i))
                        /\ ~NoUrl(RowAt(sheet, i).LinkedIn))
            /\ ~TrimmedConclusionIsYes(RowAt(sheet, i)) =>
                   (Outcomes(i) = 0 /\ Count("scrape", i) = 0)

\* C6: at the end of a run that entered the loop, every filtered row
\* without a URL has exactly one Skipped outcome, no scrape and no
\* screenshot.
C6_NoUrlSkippedExactlyOnce ==
    (pc = "done" /\ LoopStarted) =>
        \A p \in 1..Len(candidates) :
            NoUrl(RowAt(sheet, candidates[p]).LinkedIn) =>
                /\ Count("skipped", candidates[p]) = 1
                /\ Count("scrape", candidates[p]) = 0
                /\ Count("screenshot", candidates[p]) = 0

\* C7: at the end of the run every candidate reported Failed has a
\* screenshot named error_{i}.png with i its position in the unfiltered
\* sheet, and no two screenshots of distinct candidates share a name.
C7_FailedHasScreenshot ==
    pc = "done" =>
        /\ \A r \in 1..Len(sheet) :
               Count("failed", r - 1) > 0 =>
                   \E k \in DOMAIN log :
                       log[k] = ShotEvent(r - 1, <<"error_", r - 1, ".png">>)
        /\ \A j \in DOMAIN log : \A k \in DOMAIN log :
               (log[j].ev = "screenshot" /\ log[k].ev = "screenshot"
                    /\ log[j].row # log[k].row) => log[j].path # log[k].path

\* C8: once the missing file or the read error has been reported the run is
\* over: no context was acquired, the session was not loaded, scrape was
\* never invoked and no outcome was reported.
C8_FatalInputStopsBeforeBrowser ==
    (Logged("error_not_found") \/ Logged("error_reading")) =>
        /\ pc = "done"
        /\ acquired = 0
        /\ ctx = "none"
        /\ session = "unloaded"
        /\ ~Logged("acquire") /\ ~Logged("load_session") /\ ~Logged("scrape")
        /\ \A i \in Indices : Outcomes(i) = 0

C8_Witness ==
    /\ pc = "done"
    /\ Logged("error_reading")
    /\ \E i \in Indices :
           ConclusionIsYes(RowAt(sheet, i)) /\ ~NoUrl(RowAt(sheet, i).LinkedIn)

\* C9: whether load_session returns or raises, the step ends at the head of
\* the loop with the same open context, the same worklist at its first row
\* and no error propagating; a failed restore leaves a warning in the log.
C9_SessionFailureContinues ==
    /\ [][pc = "load_session" =>
             /\ pc' = "loop"
             /\ pos' = 1
             /\ ctx' = "open"
             /\ exc' = "none"
             /\ candidates' = candidates
             /\ released' = 0]_vars
    /\ [](session = "failed" => (Logged("session_warning") /\ exc # "load_session"))

C9_Witness ==
    /\ session = "failed"
    /\ pc = "done"
    /\ Logged("batch_done")
    /\ \E i \in Indices : Count("success", i) = 1

\* C10: an acquired context is eventually released, it is never released
\* more often than acquired nor more than once, and a finished run has
\* released it, whether the loop completed or an error left it.
C10_ContextReleasedExactlyOnce ==
    /\ []((acquired = 1) => <>(released = 1))
    /\ [](released <= acquired /\ released <= 1)
    /\ [](pc = "done" => (released = acquired /\ ctx # "open"))

C10_Witness ==
    /\ pc = "done"
    /\ exc = "screenshot"
    /\ acquired = 1
    /\ released = 1

OutcomeEvents == {"success", "skipped", "failed"}

\* the events with which the handling of a row begins
BeginEvents == {"processing", "skipped"}

\* C11: whenever the handling of a filtered row begins, every filtered row
\* before it already has its outcome in the log, and the rows of the
\* events of the log never go backwards.
C11_OutcomesInRowOrder ==
    /\ \A k \in DOMAIN log :
           log[k].ev \in BeginEvents \cup {"scrape"} =>
               \A p \in 1..Len(candidates) :
                   candidates[p] < log[k].row =>
                       \E m \in 1..(k - 1) :
                           log[m].row = candidates[p] /\ log[m].ev \in OutcomeEvents
    /\ \A j \in DOMAIN log : \A k \in DOMAIN log :
           (j < k /\ log[j].row # NoRow /\ log[k].row # NoRow) =>
               log[j].row <= log[k].row

C11_Witness ==
    /\ pc = "done"
    /\ \E i \in Indices : \E j \in Indices :
           i < j /\ Count("failed", i) = 1 /\ Count("success", j) = 1

\* C12: a run that entered the loop ends with the batch-complete line
\* printed and with an outcome for every filtered row.
C12_RunEndsWithSummary ==
    (pc = "done" /\ LoopStarted) =>
        /\ Logged("batch_done")
        /\ \A p \in 1..Len(candidates) : Outcomes(candidates[p]) >= 1

\* C13: scrape is invoked at most once per row, and never again for a row
\* after its Failed outcome.
C13_NoRetries ==
    /\ \A i \in Indices : Count("scrape", i) <= 1
    /\ \A j \in DOMAIN log : \A k \in DOMAIN log :
           (j < k /\ log[j].ev = "failed") =>
               ~(log[k].ev = "scrape" /\ log[k].row = log[j].row)

C13_Witness ==
    /\ pc = "done"
    /\ \E i \in Indices : \E j \in Indices :
           /\ i < j
           /\ Count("failed", i) = 1 /\ Count("scrape", i) = 1
           /\ Count("scrape", j) = 1

\* C14: a Success line is preceded by the scrape of its row and then the
\* settle delay; a pacing delay only comes after the Success line of its
\* row, and a row left with a Success line and no failure had its pacing
\* delay; after a scrape error the Failed line comes next, with no settle
\* delay for that row.
C14_SettleThenSuccessThenPace ==
    /\ \A k \in DOMAIN log :
           log[k].ev = "success" =>
               \E a \in 1..(k - 1) : \E b \in (a + 1)..(k - 1) :
                   /\ log[a].ev = "scrape" /\ log[a].row = log[k].row
                   /\ log[b].ev = "settle" /\ log[b].row = log[k].row
    /\ \A k \in DOMAIN log :
           log[k].ev = "pace" =>
               \E m \in 1..(k - 1) : log[m].ev = "success" /\ log[m].row = log[k].row
    /\ \A p \in 1..Len(candidates) :
           (p < pos /\ Count("success", candidates[p]) = 1
                /\ Count("failed", candidates[p]) = 0) =>
               Count("pace", candidates[p]) = 1
    /\ \A k \in DOMAIN log :
           log[k].ev = "scrape_error" =>
               /\ Count("settle", log[k].row) = 0
               /\ k < Len(log) => log[k + 1] = Event("failed", log[k].row)

C14_Witness ==
    /\ pc = "done"
    /\ \E i \in Indices : \E j \in Indices :
           /\ Count("scrape_error", i) = 1 /\ Count("failed", i) = 1
           /\ Count("success", j) = 1 /\ Count("pace", j) = 1

\* C15: load_session is called at most once, after the context was
\* acquired and before every scrape.
C15_SessionLoadedOnce ==
    /\ Count("load_session", NoRow) <= 1
    /\ \A k \in DOMAIN log :
           log[k].ev = "load_session" =>
               /\ \E a \in 1..(k - 1) : log[a].ev = "acquire"
               /\ \A m \in 1..(k - 1) : log[m].ev # "scrape"
    /\ \A k \in DOMAIN log :
           log[k].ev = "scrape" => \E m \in 1..(k - 1) : log[m].ev = "load_session"

C15_Witness ==
    /\ pc = "done"
    /\ Count("load_session", NoRow) = 1
    /\ \E i \in Indices : Count("failed", i) = 1
    /\ \E j \in Indices : Count("success", j) = 1

\* C16: the batch-complete line is in the log only when the context has
\* been released before it and no error is leaving main.
C16_SummaryOnlyAfterRelease ==
    \A k \in DOMAIN log :
        log[k].ev = "batch_done" =>
            /\ ctx = "released"
            /\ released = 1
            /\ exc = "none"
            /\ \E m \in 1..(k - 1) : log[m].ev = "release"

C16_Witness == Logged("batch_done") /\ \E i \in Indices : Count("failed", i) = 1

CollaboratorEvents == {"load_session", "scrape", "page_url", "screenshot"}

\* C17: every call on the browsing collaborator is made after the context
\* was acquired and before it is released, and the program only waits on
\* such a call while the context is open.
C17_CollaboratorOnlyWhileOpen ==
    /\ \A k \in DOMAIN log :
           log[k].ev \in CollaboratorEvents =>
               /\ \E a \in 1..(k - 1) : log[a].ev = "acquire"
               /\ \A m \in 1..(k - 1) : log[m].ev # "release"
    /\ pc \in {"load_session", "scrape", "report", "handler", "screenshot"} =>
           ctx = "open"

C17_Witness ==
    /\ pc = "done"
    /\ ctx = "released"
    /\ Logged("screenshot")
    /\ Logged("success")

\* C18: a context is acquired only for a non-empty worklist; a run whose
\* worklist is empty ends without a context and without the batch-complete
\* line; a worklist of URL-less rows only gets a context, which is
\* released, and no scrape.
C18_AcquireOnlyForNonEmptyWorklist ==
    /\ (acquired > 0 \/ pc \in {"acquire", "load_session"}) => Filter(sheet) # <<>>
    /\ (Logged("found") /\ Filter(sheet) = <<>>) =>
           /\ pc = "done"
           /\ acquired = 0
           /\ ctx = "none"
           /\ Logged("no_candidates")
           /\ ~Logged("batch_done")
    /\ (pc = "done" /\ Logged("found") /\ Filter(sheet) # <<>> /\ exc # "acquire"
            /\ \A i \in Indices :
                   ConclusionIsYes(RowAt(sheet, i)) => NoUrl(RowAt(sheet, i).LinkedIn)) =>
           /\ acquired = 1
           /\ released = 1
           /\ ~Logged("scrape")
           /\ Logged("batch_done")

C18_Witness ==
    /\ pc = "done"
    /\ Logged("no_candidates")
    /\ Len(sheet) > 0
    /\ \E i \in Indices : ~NoUrl(RowAt(sheet, i).LinkedIn)

TypeOK ==
    /\ sheet \in Sheets
    /\ pos \in 1..(MaxRows + 1)
    /\ ctx \in {"none", "open", "released"}
    /\ session \in {"unloaded", "loaded", "failed"}
    /\ exc \in {"none", "acquire", "load_session", "page_url", "screenshot"}
    /\ pos <= Len(candidates) + 1
====
